---------------------------- MODULE Spec2Model ----------------------------
(***************************************************************************)
(* CADence: the probability models (RF-CL, CACS-CL, post-test likelihood   *)
(* ratios) and the recommendation engine of michaelweisbach/CADence.       *)
(*                                                                         *)
(* Probabilities are percentages.  Python computes them in floating point; *)
(* the model computes them as exact fractions num/den of natural numbers.  *)
(* The numbers outgrow TLC's 32-bit integers, so a natural number is a     *)
(* sequence of limbs, least significant first, in radix 10^4, without      *)
(* leading zero limbs (zero is the empty sequence).                        *)
(***************************************************************************)
EXTENDS Integers, Sequences, FiniteSets, TLC

VARIABLES
    test_results,     \* st.session_state.test_results: test -> result string
    rec_call,         \* the arguments of the last get_recommendations call
    recommendations,  \* the list that call returned
    calc_call,        \* the last call of a probability model: function, arguments
    calc_result,      \* what that call returned, or the exception it raised
    session_state,    \* the other entries of st.session_state
    cacs_input,       \* the value of the calcium-score number input
    page              \* what the last run of main rendered

recVars == <<test_results, rec_call, recommendations>>
calcVars == <<calc_call, calc_result>>
sessionVars == <<session_state, cacs_input, page>>
vars == <<test_results, rec_call, recommendations, calc_call, calc_result,
          session_state, cacs_input, page>>

---------------------------------------------------------------------------
(* Natural numbers of any size.                                            *)

Radix == 10^4

RECURSIVE BFromInt(_)
BFromInt(n) ==
    IF n = 0 THEN <<>> ELSE <<n % Radix>> \o BFromInt(n \div Radix)

RECURSIVE BStrip(_)
BStrip(a) ==
    IF a = <<>> THEN <<>>
    ELSE IF a[Len(a)] = 0 THEN BStrip(SubSeq(a, 1, Len(a) - 1))
    ELSE a

RECURSIVE BAddC(_, _, _)
BAddC(a, b, c) ==
    IF a = <<>> /\ b = <<>> THEN (IF c = 0 THEN <<>> ELSE <<c>>)
    ELSE LET x == IF a = <<>> THEN 0 ELSE Head(a)
             y == IF b = <<>> THEN 0 ELSE Head(b)
             s == x + y + c
         IN  <<s % Radix>> \o BAddC(IF a = <<>> THEN <<>> ELSE Tail(a),
                                    IF b = <<>> THEN <<>> ELSE Tail(b),
                                    s \div Radix)

BAdd(a, b) == BAddC(a, b, 0)

\* a - b for a >= b.
RECURSIVE BSubC(_, _, _)
BSubC(a, b, c) ==
    IF a = <<>> THEN <<>>
    ELSE LET y == IF b = <<>> THEN 0 ELSE Head(b)
             s == Head(a) - y - c
         IN  <<IF s < 0 THEN s + Radix ELSE s>>
             \o BSubC(Tail(a), IF b = <<>> THEN <<>> ELSE Tail(b),
                      IF s < 0 THEN 1 ELSE 0)

BSub(a, b) == BStrip(BSubC(a, b, 0))

\* a * k for 0 <= k < 10^5.
RECURSIVE BMulSmallC(_, _, _)
BMulSmallC(a, k, c) ==
    IF a = <<>> THEN BFromInt(c)
    ELSE LET s == Head(a) * k + c
         IN  <<s % Radix>> \o BMulSmallC(Tail(a), k, s \div Radix)

BMulSmall(a, k) == IF k = 0 THEN <<>> ELSE BMulSmallC(a, k, 0)

BShift(a) == IF a = <<>> THEN <<>> ELSE <<0>> \o a

RECURSIVE BMul(_, _)
BMul(a, b) ==
    IF a = <<>> \/ b = <<>> THEN <<>>
    ELSE BAdd(BMulSmall(a, Head(b)), BShift(BMul(a, Tail(b))))

RECURSIVE BCmpAt(_, _, _)
BCmpAt(a, b, i) ==
    IF i = 0 THEN 0
    ELSE IF a[i] < b[i] THEN -1
    ELSE IF a[i] > b[i] THEN 1
    ELSE BCmpAt(a, b, i - 1)

\* -1, 0 or 1 as a < b, a = b or a > b.
BCmp(a, b) ==
    IF Len(a) < Len(b) THEN -1
    ELSE IF Len(a) > Len(b) THEN 1
    ELSE BCmpAt(a, b, Len(a))

---------------------------------------------------------------------------
(* A percentage: the fraction num/den, den > 0.                            *)

Pct(n, d) == [num |-> BFromInt(n), den |-> BFromInt(d)]

PctCmp(p, q) == BCmp(BMul(p.num, q.den), BMul(q.num, p.den))

PctLe(p, q) == PctCmp(p, q) <= 0
PctLt(p, q) == PctCmp(p, q) < 0
PctGt(p, q) == PctCmp(p, q) > 0
PctEq(p, q) == PctCmp(p, q) = 0

\* Python's min(x, 100): the int 100 when x exceeds it.
MinWith100(p) == IF PctGt(p, Pct(100, 1)) THEN Pct(100, 1) ELSE p

---------------------------------------------------------------------------
(* Tests and results.                                                      *)

\* AVAILABLE_TESTS, in the order of the list.
AVAILABLE_TESTS ==
    <<"ccta", "stress_ecg", "stress_echo", "spect", "pet", "stress_cmr">>

\* The list get_recommendations walks, four times, in this order.
FUNCTIONAL_TESTS == <<"stress_ecg", "stress_echo", "spect", "pet", "stress_cmr">>

TestNames == {AVAILABLE_TESTS[i] : i \in 1..Len(AVAILABLE_TESTS)}

\* What a result entry can hold: '' (unset), the two results the widgets
\* offer, and the 'Non-diagnostic' get_recommendations looks for.
ResultValues == {"", "Positive", "Negative", "Non-diagnostic"}

---------------------------------------------------------------------------
(* get_recommendations.  completed_tests maps a test to its flag (the key  *)
(* f'{test}_done' of the code is the test's name here); the results are    *)
(* not an argument: the code reads st.session_state.test_results.          *)

HighRiskQuote == "In individuals at high risk of adverse events ..."

RecHighRiskCcta ==
    [test |-> "Invasive Coronary Angiography",
     reason |-> "High event risk on CCTA",
     performance |-> "ICA with coronary pressure assessment",
     recommendation_quote |-> HighRiskQuote,
     class_ |-> "I", level |-> "A"]

RecHighRiskFunctional ==
    [test |-> "Invasive Coronary Angiography",
     reason |-> "High event risk on functional testing",
     performance |-> "ICA with coronary pressure assessment",
     recommendation_quote |-> HighRiskQuote,
     class_ |-> "I", level |-> "A"]

RecVeryHighPtp ==
    [test |-> "Invasive Coronary Angiography",
     reason |-> "Very high pre-test probability",
     performance |-> "Direct referral for invasive testing with FFR capability",
     recommendation_quote |-> HighRiskQuote,
     class_ |-> "I", level |-> "A"]

RecUncertain ==
    [test |-> "Invasive Coronary Angiography",
     reason |-> "Uncertain diagnosis after non-invasive testing",
     performance |-> "ICA with FFR capability",
     recommendation_quote |-> "Invasive coronary angiography with the availability ...",
     class_ |-> "I", level |-> "B"]

RecAnocaBothNegative ==
    [test |-> "Consider ANOCA/INOCA",
     reason |-> "Obstructive CAD excluded but symptoms persist",
     performance |-> "Consider invasive coronary functional testing if appropriate",
     recommendation_quote |-> "In persistently symptomatic patients ...",
     class_ |-> "I", level |-> "B"]

RecFunctionalAfterCcta ==
    [test |-> "Non-invasive Functional Imaging",
     reason |-> "CAD of uncertain functional significance on CCTA",
     performance |-> "Functional testing recommended",
     recommendation_quote |-> "Functional imaging for myocardial ischaemia is recommended ...",
     class_ |-> "I", level |-> "B"]

RecCctaNonDiagnostic ==
    [test |-> "CCTA",
     reason |-> "Non-diagnostic functional test",
     performance |-> "CCTA recommended when functional test is non-diagnostic",
     recommendation_quote |-> "CCTA is recommended ... if functional imaging is not diagnostic",
     class_ |-> "I", level |-> "B"]

RecCctaRuleOut ==
    [test |-> "CCTA",
     reason |-> "Rule out obstructive CAD in appropriate PTP range",
     performance |-> "CCTA recommended to confirm absence of obstructive CAD",
     recommendation_quote |-> "To rule out obstructive CAD ...",
     class_ |-> "I", level |-> "B"]

RecAnocaLowPtp ==
    [test |-> "Consider ANOCA/INOCA",
     reason |-> "Negative functional tests with very low PTP suggests non-obstructive cause",
     performance |-> "Consider invasive coronary functional testing",
     recommendation_quote |-> "In persistently symptomatic patients ...",
     class_ |-> "I", level |-> "B"]

RecDefer ==
    [test |-> "Consider Defer Testing",
     reason |-> "Very low pre-test probability",
     performance |-> "Risk of false positives exceeds benefit",
     recommendation_quote |-> "In individuals with a very low (<=5%) pre-test likelihood ...",
     class_ |-> "IIa", level |-> "B"]

RecCctaOrFunctional ==
    [test |-> "CCTA or Functional Imaging",
     reason |-> "Low or moderate pre-test probability",
     performance |-> "Either modality appropriate",
     recommendation_quote |-> "In symptomatic patients in whom the pre-test likelihood ... is >5%",
     class_ |-> "I", level |-> "B"]

RecFunctionalImaging ==
    [test |-> "Functional Imaging",
     reason |-> "High pre-test probability",
     performance |-> "Functional imaging preferred",
     recommendation_quote |-> "In individuals with suspected CCS and moderate or high ...",
     class_ |-> "I", level |-> "B"]

\* has_ccta = completed_tests.get('ccta_done', False)
HasCcta(completed_tests) == completed_tests["ccta"]

\* has_functional = any(completed_tests.get(f'{test}_done', False) for ...)
HasFunctional(completed_tests) ==
    \E i \in 1..Len(FUNCTIONAL_TESTS) : completed_tests[FUNCTIONAL_TESTS[i]]

\* if has_ccta and st.session_state.test_results.get('ccta') == 'Positive'
CctaHighRisk(completed_tests, results) ==
    HasCcta(completed_tests) /\ results["ccta"] = "Positive"

\* The loop without its return: every positive completed test appends.
RECURSIVE FunctionalHighRiskFrom_NoReturn(_, _, _)
FunctionalHighRiskFrom_NoReturn(i, completed_tests, results) ==
    IF i > Len(FUNCTIONAL_TESTS) THEN <<>>
    ELSE (IF completed_tests[FUNCTIONAL_TESTS[i]]
             /\ results[FUNCTIONAL_TESTS[i]] = "Positive"
          THEN <<RecHighRiskFunctional>> ELSE <<>>)
         \o FunctionalHighRiskFrom_NoReturn(i + 1, completed_tests, results)

\* The for loop over the functional tests from its i-th test on: the list
\* returned from inside the loop, or <<>> when the loop runs out.
RECURSIVE FunctionalHighRiskFrom(_, _, _)
FunctionalHighRiskFrom(i, completed_tests, results) ==
    IF i > Len(FUNCTIONAL_TESTS) THEN <<>>
    ELSE IF completed_tests[FUNCTIONAL_TESTS[i]]
            /\ results[FUNCTIONAL_TESTS[i]] = "Positive"
         THEN <<RecHighRiskFunctional>>
         ELSE FunctionalHighRiskFrom(i + 1, completed_tests, results)

\* if has_functional: for test in [...]: if ...: append; return
FunctionalHighRisk(completed_tests, results) ==
    IF HasFunctional(completed_tests)
    THEN FunctionalHighRiskFrom(1, completed_tests, results)
    ELSE <<>>

\* if adjusted_ptp > 85
VeryHighPtp(adjusted_ptp) == PctGt(adjusted_ptp, Pct(85, 1))

\* Only the CCTA result is looked at.
AnyStoredPositive_CctaOnly(results) == results["ccta"] = "Positive"

\* Anything that is not 'Negative' counts as positive.
AnyStoredPositive_NotNegative(results) ==
    \E t \in TestNames : results[t] # "Negative"

\* test_results.get('ccta') == 'Positive' or any(test_results.get(test) ==
\* 'Positive' for test in [...]): every stored result, completed or not.
AnyStoredPositive(results) ==
    \/ results["ccta"] = "Positive"
    \/ \E i \in 1..Len(FUNCTIONAL_TESTS) : results[FUNCTIONAL_TESTS[i]] = "Positive"

\* == 'Negative' in place of != 'Positive'.
CctaOnlyNotPositive_Negative(completed_tests, results) ==
    /\ HasCcta(completed_tests)
    /\ ~HasFunctional(completed_tests)
    /\ results["ccta"] = "Negative"

\* elif has_ccta and not has_functional and test_results.get('ccta') != 'Positive'
CctaOnlyNotPositive(completed_tests, results) ==
    /\ HasCcta(completed_tests)
    /\ ~HasFunctional(completed_tests)
    /\ results["ccta"] # "Positive"

\* all() in place of any().
AnyCompletedNonDiagnostic_All(completed_tests, results) ==
    \A i \in 1..Len(FUNCTIONAL_TESTS) :
        completed_tests[FUNCTIONAL_TESTS[i]]
            => results[FUNCTIONAL_TESTS[i]] = "Non-diagnostic"

\* any(test_results.get(test) == 'Non-diagnostic' for test in [...]
\*     if completed_tests.get(f'{test}_done'))
AnyCompletedNonDiagnostic(completed_tests, results) ==
    \E i \in 1..Len(FUNCTIONAL_TESTS) :
        /\ completed_tests[FUNCTIONAL_TESTS[i]]
        /\ results[FUNCTIONAL_TESTS[i]] = "Non-diagnostic"

\* adjusted_ptp < 5.
VeryLowPtp_Strict(adjusted_ptp) == PctLt(adjusted_ptp, Pct(5, 1))

\* The tiers: adjusted_ptp <= 5, 5 < adjusted_ptp <= 50, 50 < adjusted_ptp <= 85.
VeryLowPtp(adjusted_ptp) == PctLe(adjusted_ptp, Pct(5, 1))

\* 5 <= adjusted_ptp <= 50.
LowModeratePtp_Inclusive(adjusted_ptp) ==
    PctLe(Pct(5, 1), adjusted_ptp) /\ PctLe(adjusted_ptp, Pct(50, 1))

LowModeratePtp(adjusted_ptp) ==
    PctLt(Pct(5, 1), adjusted_ptp) /\ PctLe(adjusted_ptp, Pct(50, 1))

\* 50 < adjusted_ptp < 85.
HighPtp_Strict(adjusted_ptp) ==
    PctLt(Pct(50, 1), adjusted_ptp) /\ PctLt(adjusted_ptp, Pct(85, 1))

HighPtp(adjusted_ptp) ==
    PctLt(Pct(50, 1), adjusted_ptp) /\ PctLe(adjusted_ptp, Pct(85, 1))

\* elif has_functional and not has_ccta: ...
FunctionalOnlyRecs(adjusted_ptp, completed_tests, results) ==
    IF AnyCompletedNonDiagnostic(completed_tests, results)
    THEN <<RecCctaNonDiagnostic>>
    ELSE IF LowModeratePtp(adjusted_ptp) THEN <<RecCctaRuleOut>>
    ELSE IF VeryLowPtp(adjusted_ptp) THEN <<RecAnocaLowPtp>>
    ELSE <<>>

\* elif not has_ccta and not has_functional: ...
NoTestRecs(adjusted_ptp) ==
    IF VeryLowPtp(adjusted_ptp) THEN <<RecDefer>>
    ELSE IF LowModeratePtp(adjusted_ptp) THEN <<RecCctaOrFunctional>>
    ELSE IF HighPtp(adjusted_ptp) THEN <<RecFunctionalImaging>>
    ELSE <<>>

\* The chain with the probability check moved behind the test branches.
StandardRecs_PtpLast(adjusted_ptp, completed_tests, results) ==
    IF HasCcta(completed_tests) /\ HasFunctional(completed_tests)
         THEN (IF AnyStoredPositive(results) THEN <<RecUncertain>>
               ELSE <<RecAnocaBothNegative>>)
    ELSE IF CctaOnlyNotPositive(completed_tests, results)
         THEN <<RecFunctionalAfterCcta>>
    ELSE IF VeryHighPtp(adjusted_ptp) THEN <<RecVeryHighPtp>>
    ELSE IF HasFunctional(completed_tests) /\ ~HasCcta(completed_tests)
         THEN FunctionalOnlyRecs(adjusted_ptp, completed_tests, results)
    ELSE IF ~HasCcta(completed_tests) /\ ~HasFunctional(completed_tests)
         THEN NoTestRecs(adjusted_ptp)
    ELSE <<>>

\* The if/elif chain after the high-risk checks.
StandardRecs(adjusted_ptp, completed_tests, results) ==
    IF VeryHighPtp(adjusted_ptp) THEN <<RecVeryHighPtp>>
    ELSE IF HasCcta(completed_tests) /\ HasFunctional(completed_tests)
         THEN (IF AnyStoredPositive(results) THEN <<RecUncertain>>
               ELSE <<RecAnocaBothNegative>>)
    ELSE IF CctaOnlyNotPositive(completed_tests, results)
         THEN <<RecFunctionalAfterCcta>>
    ELSE IF HasFunctional(completed_tests) /\ ~HasCcta(completed_tests)
         THEN FunctionalOnlyRecs(adjusted_ptp, completed_tests, results)
    ELSE IF ~HasCcta(completed_tests) /\ ~HasFunctional(completed_tests)
         THEN NoTestRecs(adjusted_ptp)
    ELSE <<>>

\* The probability tiers first, the high-risk checks after them.
get_recommendations_PtpFirst(adjusted_ptp, completed_tests, results) ==
    IF VeryHighPtp(adjusted_ptp) THEN <<RecVeryHighPtp>>
    ELSE IF CctaHighRisk(completed_tests, results) THEN <<RecHighRiskCcta>>
    ELSE LET fromLoop == FunctionalHighRisk(completed_tests, results)
         IN  IF fromLoop # <<>> THEN fromLoop
             ELSE StandardRecs(adjusted_ptp, completed_tests, results)

\* recommendations = []; the two high-risk checks return from the function,
\* the chain appends at most once; return recommendations.
get_recommendations(adjusted_ptp, completed_tests, results) ==
    IF CctaHighRisk(completed_tests, results) THEN <<>> \o <<RecHighRiskCcta>>
    ELSE LET fromLoop == FunctionalHighRisk(completed_tests, results)
         IN  IF fromLoop # <<>> THEN fromLoop
             ELSE <<>> \o StandardRecs(adjusted_ptp, completed_tests, results)

---------------------------------------------------------------------------
(* The probability models of utils/calculations.py.                        *)

\* clinical_constants.py, in units of 10^-4.
CONST == -95260
SEX_COEF == 16128
AGE_COEF == 844
TYPICAL_COEF == 27112
NON_ANGINAL_COEF == -4675
AGE_TYPICAL_COEF == -187
AGE_RF_COEF == -131
TYPICAL_RF_COEF == -2799
SEX_RF_COEF == -2091
\* The literal 1.4940 of calculate_rf_cl.
RF_COEF == 14940

MIN_AGE == 18
MAX_AGE == 100

Symptoms == {"typical", "atypical", "non_anginal"}
RiskFactorKeys ==
    {"diabetes", "smoking", "hypertension", "dyslipidemia", "family_history"}

\* A fixed-point number is an integer count of 10^-4. The product of two
\* naturals held that way, the last four digits dropped.
FxMul(a, b) == LET prod == BMul(a, b) IN IF Len(prod) <= 1 THEN <<>> ELSE Tail(prod)

\* The series 1 + x + x^2/2! + ... for x = r/10^4 in [0, 1], from the term
\* of index k - 1 on, every term rounded to 10^-4.
RECURSIVE ExpTerms(_, _, _)
ExpTerms(term, r, k) ==
    IF term = 0 THEN 0
    ELSE term + ExpTerms((term * r + 5000 * k) \div (10000 * k), r, k + 1)

ExpFrac(r) == ExpTerms(10000, r, 1)

\* e^q for a natural q.
RECURSIVE ExpWhole(_)
ExpWhole(q) ==
    IF q = 0 THEN BFromInt(10000)
    ELSE FxMul(ExpWhole(q - 1), BFromInt(ExpFrac(10000)))

\* np.exp(x) for x = x4/10^4, as a fraction: e^|x| to four decimals, over
\* one for x >= 0 and under one for x < 0.
np_exp(x4) ==
    LET a == IF x4 >= 0 THEN x4 ELSE -x4
        e == FxMul(ExpWhole(a \div 10000), BFromInt(ExpFrac(a % 10000)))
    IN  IF x4 >= 0 THEN [num |-> e, den |-> BFromInt(10000)]
        ELSE [num |-> BFromInt(10000), den |-> e]

\* rf_count = sum(1 for rf, has_rf in risk_factors.items() if has_rf)
RfCount(risk_factors) == Cardinality({rf \in DOMAIN risk_factors : risk_factors[rf]})

\* The categories cut one count early: 0, 1-2, 3-5.
NbRf_CutEarly(rf_count) == IF rf_count <= 0 THEN 1 ELSE IF rf_count <= 2 THEN 2 ELSE 3

\* nb_rf: the categories 0-1, 2-3, 4-5.
NbRf(rf_count) == IF rf_count <= 1 THEN 1 ELSE IF rf_count <= 3 THEN 2 ELSE 3

\* The logit, in units of 10^-4 (exact: the coefficients have four decimals
\* and age, the flags and nb_rf are integers).
Logit(age, sex_binary, symptoms, risk_factors) ==
    LET symp_typical == IF symptoms = "typical" THEN 1 ELSE 0
        symp_non_anginal == IF symptoms = "non_anginal" THEN 1 ELSE 0
        nb_rf == NbRf(RfCount(risk_factors))
    IN  CONST
        + SEX_COEF * sex_binary
        + AGE_COEF * age
        + TYPICAL_COEF * symp_typical
        + NON_ANGINAL_COEF * symp_non_anginal
        + RF_COEF * nb_rf
        + AGE_TYPICAL_COEF * age * symp_typical
        + AGE_RF_COEF * age * nb_rf
        + TYPICAL_RF_COEF * symp_typical * nb_rf
        + SEX_RF_COEF * sex_binary * nb_rf

\* The exponent without its minus sign: 1 / (1 + np.exp(logit)).
calculate_rf_cl_NoNegation(age, sex_binary, symptoms, risk_factors) ==
    LET e == np_exp(Logit(age, sex_binary, symptoms, risk_factors))
        probability == [num |-> e.den, den |-> BAdd(e.den, e.num)]
    IN  MinWith100([num |-> BMulSmall(probability.num, 100),
                    den |-> probability.den])

\* probability = 1 / (1 + np.exp(-logit)); return min(probability * 100, 100)
calculate_rf_cl(age, sex_binary, symptoms, risk_factors) ==
    LET e == np_exp(-Logit(age, sex_binary, symptoms, risk_factors))
        probability == [num |-> e.den, den |-> BAdd(e.den, e.num)]
    IN  MinWith100([num |-> BMulSmall(probability.num, 100),
                    den |-> probability.den])

\* The five CACS category flags.
Cacs_1_9(cacs) == IF 1 <= cacs /\ cacs <= 9 THEN 1 ELSE 0
\* The second category from 9 on: it overlaps the first.
Cacs_10_99_From9(cacs) == IF 9 <= cacs /\ cacs <= 99 THEN 1 ELSE 0
Cacs_10_99(cacs) == IF 10 <= cacs /\ cacs <= 99 THEN 1 ELSE 0
Cacs_100_399(cacs) == IF 100 <= cacs /\ cacs <= 399 THEN 1 ELSE 0
Cacs_400_999(cacs) == IF 400 <= cacs /\ cacs <= 999 THEN 1 ELSE 0
Cacs_1000(cacs) == IF cacs >= 1000 THEN 1 ELSE 0

\* The terms of the sum without rf_ptp, in units of 10^-4.
CacsMain(cacs) ==
    13 + Cacs_1_9(cacs) * 82 + Cacs_10_99(cacs) * 238
       + Cacs_100_399(cacs) * 1131 + Cacs_400_999(cacs) * 2306
       + Cacs_1000(cacs) * 4040

\* The factor of rf_ptp in the other terms, in units of 10^-4.
CacsSlope(cacs) ==
    2021 + Cacs_1_9(cacs) * 1311 + Cacs_10_99(cacs) * 2909
         + Cacs_100_399(cacs) * 4077 + Cacs_400_999(cacs) * 4658
         + Cacs_1000(cacs) * 4489

\* rf_ptp = rf_cl / 100; probability = 0.0013 + rf_ptp * 0.2021 + ...;
\* return min(probability * 100, 100)
calculate_cacs_cl(rf_cl, cacs) ==
    LET rf_ptp == [num |-> rf_cl.num, den |-> BMulSmall(rf_cl.den, 100)]
        probability ==
            [num |-> BAdd(BMulSmall(rf_ptp.den, CacsMain(cacs)),
                          BMulSmall(rf_ptp.num, CacsSlope(cacs))),
             den |-> BMulSmall(rf_ptp.den, 10000)]
    IN  MinWith100([num |-> BMulSmall(probability.num, 100),
                    den |-> probability.den])

\* likelihood_ratios.py, in hundredths.
ANATOMICAL_POSITIVE_LR ==
    [stress_ecg |-> 153, stress_echo |-> 467, spect |-> 288, pet |-> 587,
     stress_cmr |-> 454, ccta |-> 444]
ANATOMICAL_NEGATIVE_LR ==
    [stress_ecg |-> 68, stress_echo |-> 18, spect |-> 19, pet |-> 12,
     stress_cmr |-> 13, ccta |-> 4]
FUNCTIONAL_POSITIVE_LR ==
    [spect |-> 421, pet |-> 604, stress_cmr |-> 710, ccta |-> 197]
FUNCTIONAL_NEGATIVE_LR ==
    [spect |-> 33, pet |-> 13, stress_cmr |-> 13, ccta |-> 13]

ReferenceStandards == {"anatomical", "functional"}

Returned(value) == [status |-> "ok", value |-> value]
Raised(exception) == [status |-> exception]

\* The loop leaving after its first item.
ApplyResults_FirstOnly(odds, items, i, positive_lr, negative_lr) ==
    IF i > Len(items) THEN Returned(odds)
    ELSE LET test == items[i][1]
             result == items[i][2]
             lr == IF result = "Positive" THEN positive_lr ELSE negative_lr
         IN  IF result \notin {"Positive", "Negative"} THEN Returned(odds)
             ELSE IF test \notin DOMAIN lr THEN Raised("KeyError")
             ELSE Returned([num |-> BMulSmall(odds.num, lr[test]),
                            den |-> BMulSmall(odds.den, 100)])

\* The loop with the two tables exchanged: a Positive result multiplies by
\* the negative ratio.
RECURSIVE ApplyResults_Swapped(_, _, _, _, _)
ApplyResults_Swapped(odds, items, i, positive_lr, negative_lr) ==
    IF i > Len(items) THEN Returned(odds)
    ELSE LET test == items[i][1]
             result == items[i][2]
             lr == IF result = "Positive" THEN negative_lr ELSE positive_lr
         IN  IF result \notin {"Positive", "Negative"}
             THEN ApplyResults_Swapped(odds, items, i + 1, positive_lr, negative_lr)
             ELSE IF test \notin DOMAIN lr THEN Raised("KeyError")
             ELSE ApplyResults_Swapped([num |-> BMulSmall(odds.num, lr[test]),
                                        den |-> BMulSmall(odds.den, 100)],
                                       items, i + 1, positive_lr, negative_lr)

\* The for loop over test_results.items() from its i-th item on; odds is a
\* fraction, or the exception a lookup raised.
RECURSIVE ApplyResults(_, _, _, _, _)
ApplyResults(odds, items, i, positive_lr, negative_lr) ==
    IF i > Len(items) THEN Returned(odds)
    ELSE LET test == items[i][1]
             result == items[i][2]
             lr == IF result = "Positive" THEN positive_lr ELSE negative_lr
         IN  IF result \notin {"Positive", "Negative"}
             THEN ApplyResults(odds, items, i + 1, positive_lr, negative_lr)
             ELSE IF test \notin DOMAIN lr THEN Raised("KeyError")
             ELSE ApplyResults([num |-> BMulSmall(odds.num, lr[test]),
                                den |-> BMulSmall(odds.den, 100)],
                               items, i + 1, positive_lr, negative_lr)

\* test_results is the dict as the sequence of its (test, result) items.
\* odds = base_probability / (100 - base_probability) raises for a base of
\* exactly 100.
adjust_likelihood_for_test_results(base_probability, items, reference_standard) ==
    LET positive_lr == IF reference_standard = "functional"
                       THEN FUNCTIONAL_POSITIVE_LR ELSE ANATOMICAL_POSITIVE_LR
        negative_lr == IF reference_standard = "functional"
                       THEN FUNCTIONAL_NEGATIVE_LR ELSE ANATOMICAL_NEGATIVE_LR
        hundred == BMulSmall(base_probability.den, 100)
    IN  IF BCmp(hundred, base_probability.num) = 0
        THEN Raised("ZeroDivisionError")
        ELSE LET odds == [num |-> base_probability.num,
                          den |-> BSub(hundred, base_probability.num)]
                 final == ApplyResults(odds, items, 1, positive_lr, negative_lr)
             IN  IF final.status # "ok" THEN final
                 ELSE Returned(MinWith100(
                          [num |-> BMulSmall(final.value.num, 100),
                           den |-> BAdd(final.value.den, final.value.num)]))

---------------------------------------------------------------------------
(* The Streamlit session: st.session_state, the widgets and one run of     *)
(* main.  A user action changes one widget, runs that widget's callback    *)
(* and then runs main from its first line; a widget a run does not render  *)
(* loses its entry in st.session_state at the end of that run.             *)

\* A key that is not in st.session_state, Python's None, and a value.
Missing == [py |-> "missing"]
None == [py |-> "None"]
Val(v) == [py |-> "value", v |-> v]

FFR_VALIDATED_TESTS == <<"spect", "pet", "stress_cmr">>
FfrValidated == {FFR_VALIDATED_TESTS[i] : i \in 1..Len(FFR_VALIDATED_TESTS)}

\* The labels of the pills and the dict key each one sets.
RISK_FACTORS ==
    <<"Diabetes", "Current/Past Smoking", "Dyslipidemia", "Hypertension",
      "Family History of Early CAD">>
RiskFactorLabel ==
    [diabetes |-> "Diabetes", smoking |-> "Current/Past Smoking",
     hypertension |-> "Hypertension", dyslipidemia |-> "Dyslipidemia",
     family_history |-> "Family History of Early CAD"]

ChestPainCriteria ==
    {"Substernal chest discomfort", "Provoked by exertion/stress",
     "Relieved by rest/nitroglycerin"}

\* st.session_state once SessionState.initialize_state and the two
\* _initialize_state functions have run on an empty session; the keys of
\* widgets and of values main has not stored yet are missing.  The entries
\* main stores and nothing reads back (cacs_cl, final_probability,
\* default_score, selected_probability_score) are kept with the page of the
\* run that stored them.
InitialSession ==
    [test_results |-> [t \in TestNames |-> ""],
     completed_tests |-> [t \in TestNames |-> FALSE],
     use_ffr |-> FALSE,
     manual_rf_cl_adjustment |-> None,
     manual_adjustment_expander_open |-> FALSE,
     current_rf_cl |-> None,
     age |-> 55,
     gender |-> "Male",
     symptom_type_state |-> "Chest Pain",
     chest_pain_criteria_state |-> ChestPainCriteria,
     dyspnea_state |-> FALSE,
     risk_factors_state |-> {},
     needs_recalculation |-> FALSE,
     symptom_type |-> Missing,
     chest_pain_criteria |-> Missing,
     exertional_dyspnea |-> Missing,
     risk_factors |-> Missing,
     manual_adjustment_value |-> Missing,
     ccta_result |-> Missing,
     result_key |-> [t \in TestNames \ {"ccta"} |-> Missing],
     current_age |-> Missing,
     current_sex_binary |-> Missing,
     current_symptoms |-> Missing,
     selected_risk_factors |-> Missing]

\* st.session_state without its test_results entry.
Stored(ss) == [k \in DOMAIN ss \ {"test_results"} |-> ss[k]]

\* The page of a session no run has rendered.
NoPage ==
    [error |-> "none", rendered_tests |-> {}, test_results |-> None,
     metric |-> Missing, metric_base |-> Missing, cacs_cl |-> Missing,
     current_prob |-> Missing, final_probability |-> Missing,
     available_scores |-> <<>>, selected_probability_score |-> Missing,
     recommendation_prob |-> Missing]

---------------------------------------------------------------------------
(* The recommendation engine on its own: the session holds any result map  *)
(* with at most MaxStored entries set, and get_recommendations is called   *)
(* with any probability of PtpTenths (tenths of a percent) and any         *)
(* completed-tests record with at most MaxDone flags set.                  *)

MaxStored == 2
MaxDone == 2

PtpTenths == {0, 50, 51, 500, 501, 850, 851, 900, 1000}

ResultMaps ==
    {r \in [TestNames -> ResultValues] :
        Cardinality({t \in TestNames : r[t] # ""}) <= MaxStored}

CompletedMaps ==
    {c \in [TestNames -> BOOLEAN] :
        Cardinality({t \in TestNames : c[t]}) <= MaxDone}

NoCall == [called |-> FALSE]

NoResult == [status |-> "none"]

InitRec ==
    /\ test_results \in ResultMaps
    /\ rec_call = NoCall
    /\ recommendations = <<>>
    /\ calc_call = NoCall
    /\ calc_result = NoResult
    /\ session_state = Stored(InitialSession)
    /\ cacs_input = None
    /\ page = NoPage

CallGetRecommendations ==
    /\ rec_call = NoCall
    /\ \E p \in PtpTenths, c \in CompletedMaps :
        /\ rec_call' = [called |-> TRUE, tenths |-> p,
                        adjusted_ptp |-> Pct(p, 10), completed_tests |-> c]
        /\ recommendations' = get_recommendations(Pct(p, 10), c, test_results)
        /\ UNCHANGED <<test_results, calcVars, sessionVars>>

NextRec == CallGetRecommendations

SpecRec == InitRec /\ [][NextRec]_vars

---------------------------------------------------------------------------
(* The probability models on their own: each is called once, with inputs   *)
(* drawn from its domain.                                                  *)

\* Agatston scores 0..MaxCacs; result dicts of at most MaxResults items.
MaxCacs == 1000
MaxResults == 2

\* Base probabilities, in tenths of a percent.
BaseTenths == {0, 1, 50, 500, 850, 999, 1000}

\* The slider: min_value 0.0, max_value 100.0, step 0.1.
SliderTenths == 0..1000

Ages == MIN_AGE..MAX_AGE

\* The dicts of at most MaxResults items: sequences of (test, result) with
\* no test twice.
ResultItems ==
    {items \in UNION {[1..n -> TestNames \X {"Positive", "Negative", ""}] :
                        n \in 0..MaxResults} :
        \A i, j \in DOMAIN items : i # j => items[i][1] # items[j][1]}

InitCalc ==
    /\ test_results = [t \in TestNames |-> ""]
    /\ rec_call = NoCall
    /\ recommendations = <<>>
    /\ calc_call = NoCall
    /\ calc_result = NoResult
    /\ session_state = Stored(InitialSession)
    /\ cacs_input = None
    /\ page = NoPage

CallCalculateRfCl ==
    /\ calc_call = NoCall
    /\ \E age \in Ages, sex_binary \in {0, 1}, symptoms \in Symptoms,
       risk_factors \in [RiskFactorKeys -> BOOLEAN] :
        /\ calc_call' = [called |-> TRUE, function |-> "calculate_rf_cl",
                         age |-> age, sex_binary |-> sex_binary,
                         symptoms |-> symptoms, risk_factors |-> risk_factors]
        /\ calc_result' =
               Returned(calculate_rf_cl(age, sex_binary, symptoms, risk_factors))
        /\ UNCHANGED <<recVars, sessionVars>>

CallCalculateCacsCl ==
    /\ calc_call = NoCall
    /\ \E base \in BaseTenths, cacs \in 0..MaxCacs :
        /\ calc_call' = [called |-> TRUE, function |-> "calculate_cacs_cl",
                         base |-> base, cacs |-> cacs]
        /\ calc_result' = Returned(calculate_cacs_cl(Pct(base, 10), cacs))
        /\ UNCHANGED <<recVars, sessionVars>>

CallAdjustLikelihood ==
    /\ calc_call = NoCall
    /\ \E base \in BaseTenths, items \in ResultItems,
       reference_standard \in ReferenceStandards :
        /\ calc_call' = [called |-> TRUE,
                         function |-> "adjust_likelihood_for_test_results",
                         base |-> base, items |-> items,
                         reference_standard |-> reference_standard]
        /\ calc_result' = adjust_likelihood_for_test_results(
                              Pct(base, 10), items, reference_standard)
        /\ UNCHANGED <<recVars, sessionVars>>

\* clinical_constants.py: VALIDATED_AGE_RANGE = (30, 79).
VALIDATED_AGE_RANGE == <<30, 79>>

\* The two f-strings of validate_age, formatted.
AgeRangeMessage == "Age must be between 18 and 100"
AgeCautionMessage ==
    "The risk models were validated for ages 30-79. Results outside this range should be interpreted with caution."

\* validate_age without its second test: no warning for any age it accepts.
validate_age_NoWarning(age) ==
    IF ~(MIN_AGE <= age /\ age <= MAX_AGE)
    THEN <<FALSE, Val(AgeRangeMessage)>>
    ELSE <<TRUE, None>>

\* validate_age: the pair (is_valid, message).
validate_age(age) ==
    IF ~(MIN_AGE <= age /\ age <= MAX_AGE)
    THEN <<FALSE, Val(AgeRangeMessage)>>
    ELSE IF ~(VALIDATED_AGE_RANGE[1] <= age /\ age <= VALIDATED_AGE_RANGE[2])
    THEN <<TRUE, Val(AgeCautionMessage)>>
    ELSE <<TRUE, None>>

\* The integers validate_age is called with: the slider's range and
\* AgeMargin integers on either side of it.
AgeMargin == 3
AgeInputs == (MIN_AGE - AgeMargin)..(MAX_AGE + AgeMargin)

CallValidateAge ==
    /\ calc_call = NoCall
    /\ \E age \in AgeInputs :
        /\ calc_call' = [called |-> TRUE, function |-> "validate_age",
                         age |-> age]
        /\ calc_result' = Returned(validate_age(age))
        /\ UNCHANGED <<recVars, sessionVars>>

\* _on_slider_change: the manual override is the slider's value.
OnSliderChange ==
    /\ calc_call = NoCall
    /\ \E v \in SliderTenths :
        /\ calc_call' = [called |-> TRUE, function |-> "_on_slider_change",
                         manual_adjustment_value |-> v]
        /\ calc_result' = Returned(Pct(v, 10))
        /\ UNCHANGED <<recVars, sessionVars>>

NextCalc ==
    \/ CallCalculateRfCl
    \/ CallCalculateCacsCl
    \/ CallAdjustLikelihood
    \/ OnSliderChange
    \/ CallValidateAge

SpecCalc == InitCalc /\ [][NextCalc]_vars

---------------------------------------------------------------------------
(* One run of main.                                                        *)

\* The value a widget reports: its entry in st.session_state, or its
\* default when the run creates it.
WidgetValue(entry, default) == IF entry = Missing THEN Val(default) ELSE entry

\* render_patient_characteristics: the widgets' values, the symptom category
\* they give and the three current_* entries.
render_patient_characteristics(ss) ==
    LET symptom_widget == WidgetValue(ss.symptom_type, ss.symptom_type_state)
        symptom_type == IF symptom_widget = None THEN "Chest Pain"
                        ELSE symptom_widget.v
        criteria_widget ==
            WidgetValue(ss.chest_pain_criteria, ss.chest_pain_criteria_state)
        dyspnea_widget == WidgetValue(ss.exertional_dyspnea, ss.dyspnea_state)
        num_criteria == Cardinality(criteria_widget.v)
        symptoms ==
            IF symptom_type = "Chest Pain"
            THEN (IF num_criteria = 3 THEN "typical"
                  ELSE IF num_criteria = 2 THEN "atypical"
                  ELSE "non_anginal")
            ELSE IF symptom_type = "Dyspnoea"
            THEN (IF dyspnea_widget.v THEN "atypical" ELSE "non_anginal")
            ELSE "non_anginal"
        sex_binary == IF ss.gender = "Male" THEN 1 ELSE 0
    IN  [ss |-> [ss EXCEPT
                    !.symptom_type = symptom_widget,
                    !.chest_pain_criteria =
                        IF symptom_type = "Chest Pain" THEN criteria_widget
                        ELSE Missing,
                    !.exertional_dyspnea =
                        IF symptom_type = "Dyspnoea" THEN dyspnea_widget
                        ELSE Missing,
                    !.current_age = Val(ss.age),
                    !.current_sex_binary = Val(sex_binary),
                    !.current_symptoms = Val(symptoms)],
         age |-> ss.age, sex_binary |-> sex_binary, symptoms |-> symptoms]

\* render_risk_factors: the pills' selection as the dict of five flags.
render_risk_factors(ss) ==
    LET selected_risks == WidgetValue(ss.risk_factors, ss.risk_factors_state)
    IN  [ss |-> [ss EXCEPT !.risk_factors = selected_risks],
         risk_factors |->
             [rf \in RiskFactorKeys |-> RiskFactorLabel[rf] \in selected_risks.v]]

\* render_probability_adjustment: the expander object stored as the open
\* flag, and the slider with value=starting_value.  Streamlit tells widgets
\* apart by their parameters: a slider whose starting value differs from the
\* one of the run before is a new slider, at that value.
render_probability_adjustment(ss, base_rf_cl) ==
    LET starting_value == IF ss.manual_rf_cl_adjustment # None
                          THEN ss.manual_rf_cl_adjustment.v
                          ELSE base_rf_cl
    IN  [ss EXCEPT
            !.manual_adjustment_expander_open = TRUE,
            !.manual_adjustment_value = Val(starting_value)]

\* The functional tests whose inputs a run renders: all five, or with FFR
\* the tests that zip pairs with columns[:3].
RenderedFunctional(use_ffr) ==
    IF ~use_ffr THEN {FUNCTIONAL_TESTS[i] : i \in 1..Len(FUNCTIONAL_TESTS)}
    ELSE {FUNCTIONAL_TESTS[i] : i \in 1..3}

\* The dict comprehension of _get_valid_test_results over the items of
\* test_results from the i-th test of the dict on.
RECURSIVE ValidItemsFrom(_, _, _)
ValidItemsFrom(i, results, valid_tests) ==
    IF i > Len(AVAILABLE_TESTS) THEN <<>>
    ELSE (IF AVAILABLE_TESTS[i] \in valid_tests /\ results[AVAILABLE_TESTS[i]] # ""
          THEN <<<<AVAILABLE_TESTS[i], results[AVAILABLE_TESTS[i]]>>>>
          ELSE <<>>)
         \o ValidItemsFrom(i + 1, results, valid_tests)

\* _get_valid_test_results keeping the results of every available test
\* under either reference standard.
get_valid_test_results_NoFilter(ss) ==
    LET items == ValidItemsFrom(1, ss.test_results, TestNames)
    IN  IF items = <<>> THEN None ELSE Val(items)

\* _get_valid_test_results: the dict as its items, None when it is empty.
get_valid_test_results(ss) ==
    LET valid_tests == IF ss.use_ffr THEN FfrValidated ELSE TestNames
        items == ValidItemsFrom(1, ss.test_results, valid_tests)
    IN  IF items = <<>> THEN None ELSE Val(items)

ReferenceOf(ss) == IF ss.use_ffr THEN "functional" ELSE "anatomical"

\* _render_test_results_metric: 'current_cacs_cl' is a key nothing stores,
\* so the base is the override or current_rf_cl.
render_test_results_metric(ss, items) ==
    LET is_adjusted == ss.manual_rf_cl_adjustment # None
        base_prob == IF is_adjusted THEN ss.manual_rf_cl_adjustment.v
                     ELSE ss.current_rf_cl.v
    IN  [base_prob |-> Val(base_prob),
         adjusted_prob |->
             adjust_likelihood_for_test_results(base_prob, items, ReferenceOf(ss))]

\* render_test_results: the CCTA toggle and the result selectboxes exist for
\* rendered, completed tests only; the valid results; the metric.
render_test_results(ss) ==
    LET ccta_done == ss.completed_tests["ccta"]
        rendered == RenderedFunctional(ss.use_ffr)
        ss1 == [ss EXCEPT
                   !.completed_tests =
                       IF ccta_done THEN [@ EXCEPT !["ccta"] = TRUE] ELSE @,
                   !.ccta_result =
                       IF ccta_done THEN WidgetValue(@, FALSE) ELSE Missing,
                   !.result_key =
                       [t \in DOMAIN @ |->
                           IF t \in rendered /\ ss.completed_tests[t]
                           THEN WidgetValue(@[t], "Positive")
                           ELSE Missing]]
        test_results_ == get_valid_test_results(ss1)
        metric == IF test_results_ # None
                  THEN render_test_results_metric(ss1, test_results_.v)
                  ELSE [base_prob |-> Missing, adjusted_prob |-> NoResult]
    IN  [ss |-> ss1, rendered_tests |-> rendered \cup {"ccta"},
         test_results |-> test_results_, metric |-> metric]

PostTestScores ==
    {"Post-Test RF-CL", "Post-Test **Adjusted** RF-CL",
     "Post-Test CACS-CL", "Post-Test **Adjusted** CACS-CL"}

\* available_scores: RF-CL first, then the scores that exist, in fixed order.
AvailableScores(has_manual, has_cacs, has_results) ==
    <<"RF-CL">>
    \o (IF has_manual THEN <<"**Adjusted** RF-CL">> ELSE <<>>)
    \o (IF has_cacs
        THEN <<IF has_manual THEN "**Adjusted** CACS-CL" ELSE "CACS-CL">>
        ELSE <<>>)
    \o (IF has_results
        THEN <<IF has_cacs
               THEN (IF has_manual THEN "Post-Test **Adjusted** CACS-CL"
                     ELSE "Post-Test CACS-CL")
               ELSE (IF has_manual THEN "Post-Test **Adjusted** RF-CL"
                     ELSE "Post-Test RF-CL")>>
        ELSE <<>>)

\* The tail of main once final_prob is known: the scores, the segmented
\* control (the user leaves it alone, so it reports its default, the last
\* score), the probability recommended on, and the call of
\* get_recommendations.  current_prob is the variable of main at that point:
\* the CACS-CL when cacs is not None.
RecommendationPart(ss, base_rf_cl, current_prob, cacs, test_results_, final_prob) ==
    LET manual == ss.manual_rf_cl_adjustment
        available_scores ==
            AvailableScores(manual # None, cacs # None, test_results_ # None)
        default_score == available_scores[Len(available_scores)]
        control == Val(default_score)
        selected_score == IF control = None THEN default_score ELSE control.v
        recommendation_prob ==
            IF selected_score \in {"CACS-CL", "**Adjusted** CACS-CL"} /\ cacs # None
            THEN calculate_cacs_cl(current_prob, cacs.v)
            ELSE IF selected_score = "**Adjusted** RF-CL" /\ manual # None
            THEN manual.v
            ELSE IF selected_score \in PostTestScores THEN final_prob
            ELSE base_rf_cl
    IN  [available_scores |-> available_scores,
         default_score |-> default_score,
         selected_score |-> selected_score,
         recommendation_prob |-> recommendation_prob,
         recommendations |->
             get_recommendations(recommendation_prob, ss.completed_tests,
                                 ss.test_results)]

\* What the except branch of main leaves: the session as the exception
\* found it, no final probability, no scores, no recommendation.
Aborted(ss, exception, rendering, cacs_cl, current_prob) ==
    [ss |-> ss,
     page |-> [error |-> exception,
               rendered_tests |-> rendering.rendered_tests,
               test_results |-> rendering.test_results,
               metric |-> Missing,
               metric_base |-> rendering.metric.base_prob,
               cacs_cl |-> cacs_cl,
               current_prob |-> Val(current_prob),
               final_probability |-> Missing,
               available_scores |-> <<>>,
               selected_probability_score |-> Missing,
               recommendation_prob |-> Missing],
     rec_call |-> NoCall,
     recommendations |-> <<>>]

\* main up to the base RF-CL (app.py:90-106): the session and base_rf_cl.
main_rf_cl(ss0) ==
    LET characteristics == render_patient_characteristics(ss0)
        risks == render_risk_factors(characteristics.ss)
        base_rf_cl == calculate_rf_cl(characteristics.age,
                                      characteristics.sex_binary,
                                      characteristics.symptoms,
                                      risks.risk_factors)
    IN  [ss |-> [risks.ss EXCEPT
                    !.selected_risk_factors = Val(risks.risk_factors),
                    !.current_rf_cl = Val(base_rf_cl)],
         base_rf_cl |-> base_rf_cl]

\* main from the adjustment section to the CACS-CL (app.py:111-125);
\* current_prob is main's variable after line 125.
main_cacs_cl(rf, cacs) ==
    LET ss2 == render_probability_adjustment(rf.ss, rf.base_rf_cl)
        manual == ss2.manual_rf_cl_adjustment
        adjusted_prob == IF manual # None THEN manual.v ELSE rf.base_rf_cl
        current_prob == IF cacs # None
                        THEN calculate_cacs_cl(adjusted_prob, cacs.v)
                        ELSE adjusted_prob
    IN  [ss |-> ss2,
         base_rf_cl |-> rf.base_rf_cl,
         current_prob |-> current_prob,
         cacs_cl |-> IF cacs # None THEN Val(current_prob) ELSE Missing]

\* main over the test results (app.py:127-139): the rendering, and final_prob
\* as the outcome of the adjustment.
main_final_prob(ss, current_prob) ==
    LET rendering == render_test_results(ss)
        test_results_ == rendering.test_results
    IN  [rendering |-> rendering,
         final |-> IF test_results_ # None
                   THEN adjust_likelihood_for_test_results(
                            current_prob, test_results_.v,
                            ReferenceOf(rendering.ss))
                   ELSE Returned(current_prob)]

\* The page and the call of get_recommendations of a run that went through.
Completed(rendering, cacs_cl, current_prob, final_prob, part) ==
    [ss |-> rendering.ss,
     page |-> [error |-> "none",
               rendered_tests |-> rendering.rendered_tests,
               test_results |-> rendering.test_results,
               metric |-> IF rendering.metric.adjusted_prob.status = "ok"
                          THEN Val(rendering.metric.adjusted_prob.value)
                          ELSE Missing,
               metric_base |-> rendering.metric.base_prob,
               cacs_cl |-> cacs_cl,
               current_prob |-> Val(current_prob),
               final_probability |-> Val(final_prob),
               available_scores |-> part.available_scores,
               selected_probability_score |-> Val(part.selected_score),
               recommendation_prob |-> Val(part.recommendation_prob)],
     rec_call |-> [called |-> TRUE,
                   adjusted_ptp |-> part.recommendation_prob,
                   completed_tests |-> rendering.ss.completed_tests],
     recommendations |-> part.recommendations]

\* main from final_prob on (app.py:139-222): an exception raised by the
\* metric or by the adjustment ends in the except branch.
main_recommendations(stage, cacs, results) ==
    IF results.rendering.metric.adjusted_prob.status \notin {"ok", "none"}
    THEN Aborted(results.rendering.ss,
                 results.rendering.metric.adjusted_prob.status,
                 results.rendering, stage.cacs_cl, stage.current_prob)
    ELSE IF results.final.status # "ok"
    THEN Aborted(results.rendering.ss, results.final.status,
                 results.rendering, stage.cacs_cl, stage.current_prob)
    ELSE Completed(results.rendering, stage.cacs_cl, stage.current_prob,
                   results.final.value,
                   RecommendationPart(results.rendering.ss, stage.base_rf_cl,
                                      stage.current_prob, cacs,
                                      results.rendering.test_results,
                                      results.final.value))

\* main with the probabilities up to the CACS-CL computed.
main_test_results(stage, cacs) ==
    main_recommendations(stage, cacs,
                         main_final_prob(stage.ss, stage.current_prob))

\* One run of main on the session ss0 with the number input holding cacs.
main(ss0, cacs) == main_test_results(main_cacs_cl(main_rf_cl(ss0), cacs), cacs)

---------------------------------------------------------------------------
(* The callbacks.                                                          *)

\* update_test_completion with the uncheck branch leaving the result alone.
update_test_completion_KeepResult(ss, test_name, checkbox) ==
    IF ~checkbox
    THEN [ss EXCEPT
            !.completed_tests[test_name] = checkbox,
            !.result_key = IF test_name \in DOMAIN @
                           THEN [@ EXCEPT ![test_name] = Missing] ELSE @,
            !.ccta_result = IF test_name = "ccta" THEN Missing ELSE @]
    ELSE IF test_name = "ccta"
    THEN [ss EXCEPT
            !.completed_tests[test_name] = checkbox,
            !.ccta_result = IF @ = Missing THEN Val(FALSE) ELSE @,
            !.test_results["ccta"] = "Negative"]
    ELSE [ss EXCEPT
            !.completed_tests[test_name] = checkbox,
            !.result_key[test_name] = Val("Negative"),
            !.test_results[test_name] = "Negative"]

\* update_test_completion with the uncheck branch clearing every result.
update_test_completion_ClearAll(ss, test_name, checkbox) ==
    IF ~checkbox
    THEN [ss EXCEPT
            !.completed_tests[test_name] = checkbox,
            !.test_results = [t \in DOMAIN @ |-> ""],
            !.result_key = IF test_name \in DOMAIN @
                           THEN [@ EXCEPT ![test_name] = Missing] ELSE @,
            !.ccta_result = IF test_name = "ccta" THEN Missing ELSE @]
    ELSE IF test_name = "ccta"
    THEN [ss EXCEPT
            !.completed_tests[test_name] = checkbox,
            !.ccta_result = IF @ = Missing THEN Val(FALSE) ELSE @,
            !.test_results["ccta"] = "Negative"]
    ELSE [ss EXCEPT
            !.completed_tests[test_name] = checkbox,
            !.result_key[test_name] = Val("Negative"),
            !.test_results[test_name] = "Negative"]

\* update_test_completion with the check branch storing no default result.
update_test_completion_NoDefault(ss, test_name, checkbox) ==
    IF ~checkbox
    THEN [ss EXCEPT
            !.completed_tests[test_name] = checkbox,
            !.test_results[test_name] = "",
            !.result_key = IF test_name \in DOMAIN @
                           THEN [@ EXCEPT ![test_name] = Missing] ELSE @,
            !.ccta_result = IF test_name = "ccta" THEN Missing ELSE @]
    ELSE IF test_name = "ccta"
    THEN [ss EXCEPT
            !.completed_tests[test_name] = checkbox,
            !.ccta_result = IF @ = Missing THEN Val(FALSE) ELSE @]
    ELSE [ss EXCEPT
            !.completed_tests[test_name] = checkbox,
            !.result_key[test_name] = Val("Negative")]

\* SessionState.update_test_completion, the checkbox holding checkbox.
update_test_completion(ss, test_name, checkbox) ==
    IF ~checkbox
    THEN [ss EXCEPT
            !.completed_tests[test_name] = checkbox,
            !.test_results[test_name] = "",
            !.result_key = IF test_name \in DOMAIN @
                           THEN [@ EXCEPT ![test_name] = Missing] ELSE @,
            !.ccta_result = IF test_name = "ccta" THEN Missing ELSE @]
    ELSE IF test_name = "ccta"
    THEN [ss EXCEPT
            !.completed_tests[test_name] = checkbox,
            !.ccta_result = IF @ = Missing THEN Val(FALSE) ELSE @,
            !.test_results["ccta"] = "Negative"]
    ELSE [ss EXCEPT
            !.completed_tests[test_name] = checkbox,
            !.result_key[test_name] = Val("Negative"),
            !.test_results[test_name] = "Negative"]

\* SessionState.update_test_result
update_test_result(ss, test_name) ==
    IF ss.result_key[test_name] # Missing
    THEN [ss EXCEPT !.test_results[test_name] = ss.result_key[test_name].v]
    ELSE ss

\* SessionState.update_ccta_result
update_ccta_result(ss) ==
    IF ss.ccta_result # Missing
    THEN [ss EXCEPT !.test_results["ccta"] =
                        IF ss.ccta_result.v THEN "Positive" ELSE "Negative"]
    ELSE ss

\* _on_slider_change
on_slider_change(ss) ==
    IF ss.manual_adjustment_value # Missing
    THEN [ss EXCEPT !.manual_rf_cl_adjustment = ss.manual_adjustment_value]
    ELSE ss

\* _on_reset_click
on_reset_click(ss) ==
    [ss EXCEPT !.manual_rf_cl_adjustment = None,
               !.manual_adjustment_value = Missing]

\* _handle_age_change and _handle_gender_change
handle_age_change(ss) ==
    [ss EXCEPT !.needs_recalculation = TRUE, !.manual_rf_cl_adjustment = None]

handle_gender_change(ss) ==
    [ss EXCEPT !.needs_recalculation = TRUE, !.manual_rf_cl_adjustment = None]

\* _handle_symptom_type_change
handle_symptom_type_change(ss) ==
    [ss EXCEPT !.needs_recalculation = TRUE,
               !.manual_rf_cl_adjustment = None,
               !.symptom_type_state =
                   IF ss.symptom_type = Missing THEN @
                   ELSE IF ss.symptom_type = None THEN "Chest Pain"
                   ELSE ss.symptom_type.v]

\* _handle_chest_pain_criteria_change
handle_chest_pain_criteria_change(ss) ==
    [ss EXCEPT !.needs_recalculation = TRUE,
               !.manual_rf_cl_adjustment = None,
               !.chest_pain_criteria_state =
                   IF ss.chest_pain_criteria = Missing THEN @
                   ELSE ss.chest_pain_criteria.v]

\* _handle_dyspnea_change
handle_dyspnea_change(ss) ==
    [ss EXCEPT !.needs_recalculation = TRUE,
               !.manual_rf_cl_adjustment = None,
               !.dyspnea_state =
                   IF ss.exertional_dyspnea = Missing THEN @
                   ELSE ss.exertional_dyspnea.v]

\* _handle_risk_change leaving the override alone.
handle_risk_change_KeepOverride(ss) ==
    [ss EXCEPT !.needs_recalculation = TRUE,
               !.risk_factors_state =
                   IF ss.risk_factors = Missing THEN @ ELSE ss.risk_factors.v]

\* _handle_risk_change
handle_risk_change(ss) ==
    [ss EXCEPT !.needs_recalculation = TRUE,
               !.manual_rf_cl_adjustment = None,
               !.risk_factors_state =
                   IF ss.risk_factors = Missing THEN @ ELSE ss.risk_factors.v]

---------------------------------------------------------------------------
(* The session as a state machine: every user action is the widget's new   *)
(* value, its callback and one run of main.                                *)

\* The tests whose checkboxes the user works, the values the slider is
\* moved to (tenths of a percent), the calcium scores entered, the ages and
\* the risk-factor pills clicked.
SessionTests == {"ccta", "stress_ecg", "spect", "pet"}
OverrideTenths == {500, 950, 1000}
CacsInputs == {0, 1000}
SessionAges == {MIN_AGE, 55}
SessionRiskFactors == {"Diabetes", "Hypertension", "Dyslipidemia"}

\* st.session_state with its test_results entry.
Session == [test_results |-> test_results] @@ session_state

\* The first run of main, on the initial session with no calcium score.
Init ==
    \E run \in {main(InitialSession, None)} :
        /\ test_results = run.ss.test_results
        /\ session_state = Stored(run.ss)
        /\ cacs_input = None
        /\ page = run.page
        /\ rec_call = run.rec_call
        /\ recommendations = run.recommendations
        /\ calc_call = NoCall
        /\ calc_result = NoResult

\* The rerun after a callback left the session ss, the number input at cacs.
Run(ss, cacs) ==
    \E run \in {main(ss, cacs)} :
        /\ test_results' = run.ss.test_results
        /\ session_state' = Stored(run.ss)
        /\ cacs_input' = cacs
        /\ page' = run.page
        /\ rec_call' = run.rec_call
        /\ recommendations' = run.recommendations
        /\ UNCHANGED calcVars

\* A click on the checkbox of a rendered test.
ToggleTest ==
    \E t \in SessionTests \cap page.rendered_tests :
        Run(update_test_completion(Session, t, ~session_state.completed_tests[t]),
            cacs_input)

\* The other option of a rendered result selectbox.
ChangeResult ==
    \E t \in DOMAIN session_state.result_key :
        /\ session_state.result_key[t] # Missing
        /\ LET chosen == IF session_state.result_key[t].v = "Positive"
                         THEN "Negative" ELSE "Positive"
           IN  Run(update_test_result(
                       [Session EXCEPT !.result_key[t] = Val(chosen)], t),
                   cacs_input)

\* The 'CCTA Positive' toggle, rendered while CCTA is checked.
ToggleCctaResult ==
    /\ session_state.ccta_result # Missing
    /\ Run(update_ccta_result(
               [Session EXCEPT !.ccta_result = Val(~session_state.ccta_result.v)]),
           cacs_input)

\* The reference-standard toggle: a widget with the key use_ffr, no callback.
ToggleFfr ==
    \E use_ffr \in {~session_state.use_ffr} :
        Run([Session EXCEPT !.use_ffr = use_ffr], cacs_input)

\* The slider moved to another value.
MoveSlider ==
    \E v \in OverrideTenths :
        /\ ~PctEq(Pct(v, 10), session_state.manual_adjustment_value.v)
        /\ Run(on_slider_change(
                   [Session EXCEPT !.manual_adjustment_value = Val(Pct(v, 10))]),
               cacs_input)

\* The Reset button.
ClickReset ==
    \E ss \in {on_reset_click(Session)} : Run(ss, cacs_input)

\* The calcium score typed in or cleared: a number input without callback.
EnterCacs ==
    \E c \in {None} \cup {Val(n) : n \in CacsInputs} :
        /\ c # cacs_input
        /\ Run(Session, c)

\* The gender radio.
ChangeGender ==
    \E gender \in {"Male", "Female"} \ {session_state.gender} :
        Run(handle_gender_change([Session EXCEPT !.gender = gender]), cacs_input)

ChangeAge ==
    \E a \in SessionAges :
        /\ a # session_state.age
        /\ Run(handle_age_change([Session EXCEPT !.age = a]), cacs_input)

\* A symptom pill picked, or the picked one released.
SelectSymptomType ==
    \E s \in {None, Val("Chest Pain"), Val("Dyspnoea")} :
        /\ s # session_state.symptom_type
        /\ Run(handle_symptom_type_change([Session EXCEPT !.symptom_type = s]),
               cacs_input)

\* A chest-pain criterion picked or released, while the pills are rendered.
ToggleCriterion ==
    /\ session_state.chest_pain_criteria # Missing
    /\ \E c \in ChestPainCriteria :
        LET old == session_state.chest_pain_criteria.v
            new == IF c \in old THEN old \ {c} ELSE old \cup {c}
        IN  Run(handle_chest_pain_criteria_change(
                    [Session EXCEPT !.chest_pain_criteria = Val(new)]),
                cacs_input)

\* The exertional-dyspnea toggle, while it is rendered.
ToggleDyspnea ==
    /\ session_state.exertional_dyspnea # Missing
    /\ Run(handle_dyspnea_change(
               [Session EXCEPT
                   !.exertional_dyspnea = Val(~session_state.exertional_dyspnea.v)]),
           cacs_input)

\* A risk-factor pill picked or released.
ToggleRiskFactor ==
    \E label \in SessionRiskFactors :
        \E selected \in {IF label \in session_state.risk_factors.v
                         THEN session_state.risk_factors.v \ {label}
                         ELSE session_state.risk_factors.v \cup {label}} :
            Run(handle_risk_change(
                    [Session EXCEPT !.risk_factors = Val(selected)]),
                cacs_input)

\* The session of test entry, override and calcium score.
Next ==
    \/ ToggleTest
    \/ ChangeResult
    \/ ToggleCctaResult
    \/ ToggleFfr
    \/ MoveSlider
    \/ ClickReset
    \/ EnterCacs

Spec == Init /\ [][Next]_vars

\* The session of the patient profile and the override.
NextProfile ==
    \/ ChangeAge
    \/ ChangeGender
    \/ SelectSymptomType
    \/ ToggleCriterion
    \/ ToggleDyspnea
    \/ ToggleRiskFactor
    \/ MoveSlider
    \/ ClickReset

SpecProfile == Init /\ [][NextProfile]_vars

---------------------------------------------------------------------------
(* The claims about get_recommendations (SpecRec).                         *)

Called == rec_call.called
ArgTenths == rec_call.tenths
ArgDone == rec_call.completed_tests

FunctionalNames == TestNames \ {"ccta"}
CctaCompletedPositive == ArgDone["ccta"] /\ test_results["ccta"] = "Positive"
FunctionalCompletedPositive ==
    \E t \in FunctionalNames : ArgDone[t] /\ test_results[t] = "Positive"
SomeCompletedPositive == CctaCompletedPositive \/ FunctionalCompletedPositive
SomeFunctionalDone == \E t \in FunctionalNames : ArgDone[t]
NothingDone == \A t \in TestNames : ~ArgDone[t]

\* The list holds exactly one recommendation with this title, reason, class
\* and level.
OnlyRec(test, reason, class, level) ==
    /\ Len(recommendations) = 1
    /\ recommendations[1].test = test
    /\ recommendations[1].reason = reason
    /\ recommendations[1].class_ = class
    /\ recommendations[1].level = level

\* C1: whatever the probability, a completed Positive CCTA gives exactly one
\* recommendation, Invasive Coronary Angiography I/A with the CCTA reason;
\* otherwise a completed Positive functional test gives exactly that
\* recommendation with the functional-testing reason.
C1_HighRiskOverride ==
    Called =>
        /\ CctaCompletedPositive =>
             OnlyRec("Invasive Coronary Angiography",
                     "High event risk on CCTA", "I", "A")
        /\ (~CctaCompletedPositive /\ FunctionalCompletedPositive) =>
             OnlyRec("Invasive Coronary Angiography",
                     "High event risk on functional testing", "I", "A")

\* A call at 100% with a completed Positive CCTA and a completed Positive
\* functional test: the CCTA reason is given.
C1_Witness ==
    /\ Called /\ ArgTenths = 1000
    /\ CctaCompletedPositive /\ FunctionalCompletedPositive
    /\ recommendations[1].reason = "High event risk on CCTA"

\* C2: with no completed test Positive and probability > 85 the list is
\* exactly Invasive Coronary Angiography, 'Very high pre-test probability',
\* I/A, whatever is completed.
C2_VeryHighPtp ==
    (Called /\ ~SomeCompletedPositive /\ ArgTenths > 850) =>
        OnlyRec("Invasive Coronary Angiography",
                "Very high pre-test probability", "I", "A")

\* A call at 90% with no test completed.
C2_Witness ==
    /\ Called /\ ArgTenths = 900 /\ NothingDone
    /\ recommendations[1].reason = "Very high pre-test probability"

\* C3: with no test completed, probability <= 5 gives Consider Defer Testing
\* IIa/B, 5 < probability <= 50 gives CCTA or Functional Imaging I/B and
\* 50 < probability <= 85 gives Functional Imaging I/B.
C3_NoTestTiers ==
    (Called /\ NothingDone) =>
        /\ ArgTenths <= 50 =>
             OnlyRec("Consider Defer Testing",
                     "Very low pre-test probability", "IIa", "B")
        /\ (50 < ArgTenths /\ ArgTenths <= 500) =>
             OnlyRec("CCTA or Functional Imaging",
                     "Low or moderate pre-test probability", "I", "B")
        /\ (500 < ArgTenths /\ ArgTenths <= 850) =>
             OnlyRec("Functional Imaging", "High pre-test probability", "I", "B")

\* A call at exactly 5% with no test completed, deferred.
C3_Witness ==
    /\ Called /\ NothingDone /\ ArgTenths = 50
    /\ recommendations[1].test = "Consider Defer Testing"

\* C4 as stated: probability <= 85, CCTA and a functional test completed and
\* one of them Positive gives 'Uncertain diagnosis after non-invasive
\* testing', I/B.
C4_Original ==
    (Called /\ ArgTenths <= 850 /\ ArgDone["ccta"] /\ SomeFunctionalDone
        /\ SomeCompletedPositive) =>
        OnlyRec("Invasive Coronary Angiography",
                "Uncertain diagnosis after non-invasive testing", "I", "B")

SomeStoredPositive == \E t \in TestNames : test_results[t] = "Positive"

\* C4, amended: probability <= 85, CCTA and a functional test completed, no
\* completed test Positive, but the stored result of a test that is not
\* completed is Positive: 'Uncertain diagnosis after non-invasive testing',
\* I/B.
C4_UncertainOnStoredPositive ==
    (Called /\ ArgTenths <= 850 /\ ArgDone["ccta"] /\ SomeFunctionalDone
        /\ ~SomeCompletedPositive /\ SomeStoredPositive) =>
        OnlyRec("Invasive Coronary Angiography",
                "Uncertain diagnosis after non-invasive testing", "I", "B")

\* CCTA and SPECT completed, neither Positive, PET not completed with a
\* stored Positive, at 50%.
C4_Witness ==
    /\ Called /\ ArgTenths = 500
    /\ ArgDone["ccta"] /\ ArgDone["spect"] /\ ~ArgDone["pet"]
    /\ test_results["pet"] = "Positive" /\ ~SomeCompletedPositive
    /\ recommendations[1].reason = "Uncertain diagnosis after non-invasive testing"

\* C5: probability <= 85, CCTA and a functional test completed and no test
\* result Positive gives exactly Consider ANOCA/INOCA, I/B.
C5_BothNegative ==
    (Called /\ ArgTenths <= 850 /\ ArgDone["ccta"] /\ SomeFunctionalDone
        /\ ~SomeStoredPositive) =>
        OnlyRec("Consider ANOCA/INOCA",
                "Obstructive CAD excluded but symptoms persist", "I", "B")

\* CCTA and stress echo completed and both Negative, at 85%.
C5_Witness ==
    /\ Called /\ ArgTenths = 850
    /\ ArgDone["ccta"] /\ test_results["ccta"] = "Negative"
    /\ ArgDone["stress_echo"] /\ test_results["stress_echo"] = "Negative"
    /\ recommendations[1].test = "Consider ANOCA/INOCA"

\* C6: probability <= 85, CCTA completed, no functional test completed and
\* the CCTA result not Positive gives exactly Non-invasive Functional
\* Imaging, I/B, at every probability.
C6_CctaOnly ==
    (Called /\ ArgTenths <= 850 /\ ArgDone["ccta"] /\ ~SomeFunctionalDone
        /\ test_results["ccta"] # "Positive") =>
        OnlyRec("Non-invasive Functional Imaging",
                "CAD of uncertain functional significance on CCTA", "I", "B")

\* Only CCTA completed, Negative, at 0%.
C6_Witness ==
    /\ Called /\ ArgTenths = 0
    /\ ArgDone["ccta"] /\ ~SomeFunctionalDone
    /\ test_results["ccta"] = "Negative"
    /\ recommendations[1].test = "Non-invasive Functional Imaging"

NoCompletedFunctionalIs(result) ==
    \A t \in FunctionalNames : ArgDone[t] => test_results[t] # result

\* C7: a functional test completed, CCTA not, no completed functional result
\* Positive or Non-diagnostic: 5 < probability <= 50 gives exactly CCTA
\* (rule out) I/B, probability <= 5 exactly Consider ANOCA/INOCA I/B.
C7_FunctionalOnlyTiers ==
    (Called /\ SomeFunctionalDone /\ ~ArgDone["ccta"]
        /\ NoCompletedFunctionalIs("Positive")
        /\ NoCompletedFunctionalIs("Non-diagnostic")) =>
        /\ (50 < ArgTenths /\ ArgTenths <= 500) =>
             OnlyRec("CCTA",
                     "Rule out obstructive CAD in appropriate PTP range", "I", "B")
        /\ ArgTenths <= 50 =>
             OnlyRec("Consider ANOCA/INOCA",
                     "Negative functional tests with very low PTP suggests non-obstructive cause",
                     "I", "B")

\* Only PET completed, Negative, at exactly 5%.
C7_Witness ==
    /\ Called /\ ArgTenths = 50
    /\ ArgDone["pet"] /\ ~ArgDone["ccta"] /\ test_results["pet"] = "Negative"
    /\ recommendations[1].test = "Consider ANOCA/INOCA"

\* C8: a functional test completed, CCTA not, probability <= 85, no
\* completed functional test Positive and a completed functional test
\* Non-diagnostic gives exactly CCTA, 'Non-diagnostic functional test', I/B.
C8_NonDiagnostic ==
    (Called /\ SomeFunctionalDone /\ ~ArgDone["ccta"] /\ ArgTenths <= 850
        /\ NoCompletedFunctionalIs("Positive")
        /\ ~NoCompletedFunctionalIs("Non-diagnostic")) =>
        OnlyRec("CCTA", "Non-diagnostic functional test", "I", "B")

\* SPECT Non-diagnostic and stress CMR Negative, both completed, at 85%.
C8_Witness ==
    /\ Called /\ ArgTenths = 850 /\ ~ArgDone["ccta"]
    /\ ArgDone["spect"] /\ test_results["spect"] = "Non-diagnostic"
    /\ ArgDone["stress_cmr"] /\ test_results["stress_cmr"] = "Negative"
    /\ recommendations[1].reason = "Non-diagnostic functional test"

\* C9: the list has zero or one entry; when a completed test is Positive it
\* has exactly one, the high-risk recommendation, and nothing a later branch
\* would add.
C9_AtMostOne ==
    Called =>
        /\ Len(recommendations) <= 1
        /\ SomeCompletedPositive =>
             /\ Len(recommendations) = 1
             /\ recommendations[1] \in {RecHighRiskCcta, RecHighRiskFunctional}

\* Two completed functional tests, both Positive, at 100%: one entry.
C9_Witness ==
    /\ Called /\ ArgTenths = 1000
    /\ ArgDone["stress_ecg"] /\ test_results["stress_ecg"] = "Positive"
    /\ ArgDone["pet"] /\ test_results["pet"] = "Positive"
    /\ Len(recommendations) = 1

\* C23: the list get_recommendations returned for its two arguments is the
\* list it returns for them whatever result map the session holds (and the
\* call left the session as it was).
C23_NoHiddenState ==
    Called =>
        /\ \A stored \in ResultMaps :
              get_recommendations(rec_call.adjusted_ptp,
                                  rec_call.completed_tests, stored)
                  = recommendations
        /\ session_state = Stored(InitialSession)

\* The stored results of the tests not completed are unset.
UncompletedUnset == \A t \in TestNames : ~ArgDone[t] => test_results[t] = ""

\* A functional test is completed, CCTA is not, no completed test is
\* Positive or Non-diagnostic, and 50 < probability <= 85.
FunctionalOnlyHighPtp ==
    /\ SomeFunctionalDone
    /\ ~ArgDone["ccta"]
    /\ \A t \in TestNames :
          ArgDone[t] => test_results[t] \notin {"Positive", "Non-diagnostic"}
    /\ 500 < ArgTenths /\ ArgTenths <= 850

\* C26: for a probability within [0, 100] and stored results that are unset
\* for every test not completed, get_recommendations returns the empty list
\* exactly when a functional test is completed, CCTA is not, no completed
\* test is Positive or Non-diagnostic and 50 < probability <= 85; in every
\* other case it returns exactly one recommendation.
C26_EmptyExactlyWhen ==
    (Called /\ UncompletedUnset /\ ArgTenths \in 0..1000) =>
        Len(recommendations) = IF FunctionalOnlyHighPtp THEN 0 ELSE 1

C26_Witness ==
    /\ Called /\ UncompletedUnset
    /\ ArgTenths = 850
    /\ ArgDone["stress_ecg"] /\ test_results["stress_ecg"] = "Negative"
    /\ ~ArgDone["ccta"]
    /\ recommendations = <<>>

---------------------------------------------------------------------------
(* The claims about the probability models (SpecCalc).                     *)

CalcCalled == calc_call.called
CalcOf(function) == CalcCalled /\ calc_call.function = function

\* A percentage within [0, 100]: 0 <= num and num <= 100 * den, den > 0.
InRange0To100(p) ==
    /\ p.den # <<>>
    /\ BCmp(p.num, BMulSmall(p.den, 100)) <= 0

\* The tests with a likelihood ratio under a reference standard.
TestsWithLr(reference_standard) ==
    IF reference_standard = "functional"
    THEN {"spect", "pet", "stress_cmr", "ccta"}
    ELSE TestNames

\* The call's inputs are in the domain C10 names: for the adjustment, every
\* result Positive or Negative, of a test with a likelihood ratio.
ValidCalcInputs ==
    CalcOf("adjust_likelihood_for_test_results") =>
        \A i \in DOMAIN calc_call.items :
            /\ calc_call.items[i][2] \in {"Positive", "Negative"}
            /\ calc_call.items[i][1] \in TestsWithLr(calc_call.reference_standard)

\* C10: for all valid inputs every probability stage (calculate_rf_cl,
\* calculate_cacs_cl, adjust_likelihood_for_test_results, the manual
\* override) returns a value in [0, 100].
C10_StagesInRange ==
    (CalcCalled /\ ValidCalcInputs) =>
        /\ calc_result.status = "ok"
        /\ InRange0To100(calc_result.value)


\* C11: adjust_likelihood_for_test_results returns 100 for a base of exactly
\* 100 and 0 for a base of exactly 0, whatever the results, without a
\* division-by-zero error.
C11_FixedPoints ==
    (CalcOf("adjust_likelihood_for_test_results") /\ ValidCalcInputs) =>
        /\ calc_call.base = 1000 =>
             /\ calc_result.status = "ok"
             /\ PctEq(calc_result.value, Pct(100, 1))
        /\ calc_call.base = 0 =>
             /\ calc_result.status = "ok"
             /\ PctEq(calc_result.value, Pct(0, 1))

\* The items of tests that have a likelihood ratio under the standard.
ItemsWithLr(items, reference_standard) ==
    SelectSeq(items, LAMBDA item : item[1] \in TestsWithLr(reference_standard))

\* Two outcomes of a call agree: the same exception, or equal values.
SameOutcome(a, b) ==
    /\ a.status = b.status
    /\ a.status = "ok" => PctEq(a.value, b.value)

\* C12: a test without a likelihood ratio under the active standard is
\* skipped: for a base below 100 the call returns what it returns with the
\* items of such tests removed.
C12_MissingKeySkipped ==
    (CalcOf("adjust_likelihood_for_test_results") /\ calc_call.base < 1000) =>
        /\ calc_result.status = "ok"
        /\ SameOutcome(calc_result,
                       adjust_likelihood_for_test_results(
                           Pct(calc_call.base, 10),
                           ItemsWithLr(calc_call.items, calc_call.reference_standard),
                           calc_call.reference_standard))

\* C14: with an empty result dict under the anatomical standard the call
\* returns its base, for every base in [0, 100], 0 and 100 included.
C14_EmptyNoOp ==
    (CalcOf("adjust_likelihood_for_test_results") /\ calc_call.items = <<>>
        /\ calc_call.reference_standard = "anatomical") =>
        /\ calc_result.status = "ok"
        /\ PctEq(calc_result.value, Pct(calc_call.base, 10))

\* The orders of n items.
Orders(n) ==
    {p \in [1..n -> 1..n] : \A i, j \in 1..n : i # j => p[i] # p[j]}

Permuted(items, p) == [i \in DOMAIN items |-> items[p[i]]]

\* The items that carry a result, as a set.
ResultPairs(items) ==
    {items[i] : i \in {j \in DOMAIN items : items[j][2] \in {"Positive", "Negative"}}}

\* The product of the matching likelihood ratios of a set of pairs, as a
\* fraction.
RECURSIVE LrProduct(_, _)
LrProduct(pairs, reference_standard) ==
    IF pairs = {} THEN [num |-> BFromInt(1), den |-> BFromInt(1)]
    ELSE LET pair == CHOOSE x \in pairs : TRUE
             rest == LrProduct(pairs \ {pair}, reference_standard)
             table == IF reference_standard = "functional"
                      THEN (IF pair[2] = "Positive" THEN FUNCTIONAL_POSITIVE_LR
                            ELSE FUNCTIONAL_NEGATIVE_LR)
                      ELSE (IF pair[2] = "Positive" THEN ANATOMICAL_POSITIVE_LR
                            ELSE ANATOMICAL_NEGATIVE_LR)
         IN  [num |-> BMulSmall(rest.num, table[pair[1]]),
              den |-> BMulSmall(rest.den, 100)]

\* odds = base / (100 - base) times the product, back as a percentage:
\* 100 * odds / (1 + odds), for a base in tenths of a percent.
ProductAsPercentage(base, product) ==
    LET oddsNum == BMulSmall(product.num, base)
        oddsDen == BMulSmall(product.den, 1000 - base)
    IN  [num |-> BMulSmall(oddsNum, 100), den |-> BAdd(oddsDen, oddsNum)]

RiskFactorOrder ==
    <<"diabetes", "smoking", "hypertension", "dyslipidemia", "family_history">>
FirstFlags(n) ==
    [rf \in RiskFactorKeys |-> \E i \in 1..n : RiskFactorOrder[i] = rf]

\* C19: the counts 0 and 1 give nb_rf 1, 2 and 3 give 2, 4 and 5 give 3, and
\* with age, sex and symptoms fixed every risk-factor dict with the same
\* number of true flags gives the same calculate_rf_cl: each dict gives what
\* the dict with that many leading flags gives.
C19_Bucketing ==
    CalcOf("calculate_rf_cl") =>
        \E rf_count \in {RfCount(calc_call.risk_factors)} :
            /\ rf_count \in 0..5
            /\ rf_count \in {0, 1} => NbRf(rf_count) = 1
            /\ rf_count \in {2, 3} => NbRf(rf_count) = 2
            /\ rf_count \in {4, 5} => NbRf(rf_count) = 3
            /\ RfCount(FirstFlags(rf_count)) = rf_count
            /\ PctEq(calculate_rf_cl(calc_call.age, calc_call.sex_binary,
                                     calc_call.symptoms, FirstFlags(rf_count)),
                     calc_result.value)

\* A man of 55 with typical angina, diabetes and smoking: two risk factors.
C19_Witness ==
    /\ CalcOf("calculate_rf_cl")
    /\ calc_call.age = 55 /\ calc_call.sex_binary = 1
    /\ calc_call.symptoms = "typical"
    /\ {rf \in RiskFactorKeys : calc_call.risk_factors[rf]} = {"diabetes", "smoking"}
    /\ calc_result.status = "ok"

\* How many of the five category flags are set.
CacsFlags(cacs) ==
    Cacs_1_9(cacs) + Cacs_10_99(cacs) + Cacs_100_399(cacs)
        + Cacs_400_999(cacs) + Cacs_1000(cacs)

\* (0.0013 + 0.2021 * base / 100) * 100 for a base in tenths of a percent.
InterceptAndBase(base) == Pct(13000 + 2021 * base, 100000)

\* C20 as stated: calculate_cacs_cl(50, 0) is 10.18.
C20_Original ==
    (CalcOf("calculate_cacs_cl") /\ calc_call.base = 500 /\ calc_call.cacs = 0) =>
        PctEq(calc_result.value, Pct(1018, 100))

\* C20, amended: for a score >= 1 exactly one category flag is set, for the
\* score 0 none, and calculate_cacs_cl(base, 0) is
\* (0.0013 + 0.2021 * base / 100) * 100, which is 10.235 for a base of 50.
C20_OneHot ==
    CalcOf("calculate_cacs_cl") =>
        /\ calc_call.cacs >= 1 => CacsFlags(calc_call.cacs) = 1
        /\ calc_call.cacs = 0 =>
             /\ CacsFlags(calc_call.cacs) = 0
             /\ PctEq(calc_result.value, InterceptAndBase(calc_call.base))
             /\ calc_call.base = 500 => PctEq(calc_result.value, Pct(10235, 1000))

\* The score 0 on a base of 50%: 10.235.
C20_Witness ==
    /\ CalcOf("calculate_cacs_cl")
    /\ calc_call.base = 500 /\ calc_call.cacs = 0
    /\ PctEq(calc_result.value, Pct(10235, 1000))

\* C21: validate_age raises for no integer and returns a pair of a boolean
\* and a message: (False, a message) for an age below 18 or above 100,
\* (True, a warning) for an age in 18..29 or 80..100, (True, None) for an
\* age in 30..79; and for the ages it warns about calculate_rf_cl still
\* returns a percentage.
C21_ValidateAge ==
    /\ CalcOf("validate_age") =>
          /\ calc_result.status = "ok"
          /\ Len(calc_result.value) = 2
          /\ calc_result.value[1] \in BOOLEAN
          /\ (calc_call.age < 18 \/ calc_call.age > 100) =>
                /\ calc_result.value[1] = FALSE
                /\ calc_result.value[2].py = "value"
          /\ (calc_call.age \in 18..29 \/ calc_call.age \in 80..100) =>
                /\ calc_result.value[1] = TRUE
                /\ calc_result.value[2].py = "value"
          /\ calc_call.age \in 30..79 =>
                calc_result.value = <<TRUE, None>>
    /\ (CalcOf("calculate_rf_cl") /\ calc_call.age \notin 30..79) =>
          /\ calc_result.status = "ok"
          /\ InRange0To100(calc_result.value)

C21_Witness ==
    /\ CalcOf("validate_age")
    /\ calc_call.age = 29
    /\ calc_result = Returned(<<TRUE, Val(AgeCautionMessage)>>)

\* C22: calculate_rf_cl never decreases with age: for every sex, symptom
\* category and risk-factor dict, the value at an age of 18..100 is at most
\* the value at every greater age up to 100.  (Checked against the next
\* age and against the greatest: <= is transitive.)
C22_MonotoneInAge ==
    CalcOf("calculate_rf_cl") =>
        /\ \A b \in {calc_call.age + 1, MAX_AGE} :
              calc_call.age < b /\ b \in Ages =>
                  PctLe(calc_result.value,
                        calculate_rf_cl(b, calc_call.sex_binary,
                                        calc_call.symptoms,
                                        calc_call.risk_factors))
        \* the logit's coefficient on age, in units of 10^-4
        /\ AGE_COEF
             + AGE_TYPICAL_COEF * (IF calc_call.symptoms = "typical" THEN 1 ELSE 0)
             + AGE_RF_COEF * NbRf(RfCount(calc_call.risk_factors)) > 0

C22_Witness ==
    /\ CalcOf("calculate_rf_cl")
    /\ calc_call.age = MIN_AGE
    /\ PctLt(calc_result.value,
             calculate_rf_cl(MAX_AGE, calc_call.sex_binary,
                             calc_call.symptoms, calc_call.risk_factors))

\* The likelihood-ratio tables of a reference standard.
PositiveLrOf(reference_standard) ==
    IF reference_standard = "functional"
    THEN FUNCTIONAL_POSITIVE_LR ELSE ANATOMICAL_POSITIVE_LR
NegativeLrOf(reference_standard) ==
    IF reference_standard = "functional"
    THEN FUNCTIONAL_NEGATIVE_LR ELSE ANATOMICAL_NEGATIVE_LR

\* C29: for a base strictly between 0 and 100, either reference standard and
\* one result of a test that has a likelihood ratio for it, the post-test
\* probability is at least the base after a Positive result and at most the
\* base after a Negative one; every positive ratio of the tables is above 1
\* and every negative ratio below 1.
C29_DirectionOfResult ==
    (/\ CalcOf("adjust_likelihood_for_test_results")
     /\ calc_call.base > 0 /\ calc_call.base < 1000
     /\ Len(calc_call.items) = 1
     /\ calc_call.items[1][1] \in TestsWithLr(calc_call.reference_standard)) =>
        /\ calc_result.status = "ok"
        /\ calc_call.items[1][2] = "Positive" =>
              PctLe(Pct(calc_call.base, 10), calc_result.value)
        /\ calc_call.items[1][2] = "Negative" =>
              PctLe(calc_result.value, Pct(calc_call.base, 10))
        /\ PositiveLrOf(calc_call.reference_standard)[calc_call.items[1][1]] > 100
        /\ NegativeLrOf(calc_call.reference_standard)[calc_call.items[1][1]] < 100

C29_Witness ==
    /\ CalcOf("adjust_likelihood_for_test_results")
    /\ calc_call.base = 500
    /\ calc_call.items = <<<<"spect", "Negative">>>>
    /\ calc_call.reference_standard = "functional"
    /\ calc_result.status = "ok"
    /\ PctLt(calc_result.value, Pct(500, 10))

---------------------------------------------------------------------------
(* The claims about the session of test entry (Spec).                      *)

\* The run of main that made the page went through.
RunCompleted == page.error = "none"

\* The items the run passed to adjust_likelihood_for_test_results.
EnteredItems == IF page.test_results = None THEN <<>> ELSE page.test_results.v

\* C13: under either reference standard a completed CCTA result is among the
\* results the post-test probability is computed from, so that under the
\* functional standard it enters with 1.97 / 0.13.
C13_CctaBothStandards ==
    (session_state.completed_tests["ccta"] /\ RunCompleted) =>
        \E i \in DOMAIN EnteredItems :
            EnteredItems[i] = <<"ccta", test_results["ccta"]>>

\* C16: in every state the session actions reach, a test whose completion
\* flag is false has the result '' (so unchecking a test has cleared its
\* result by the end of that action).
C16_UncheckedIsUnset ==
    \A t \in TestNames :
        ~session_state.completed_tests[t] => test_results[t] = ""

\* PET checked and set Positive, SPECT checked, the FFR standard chosen, and
\* CCTA not checked, with the result ''.
C16_Witness ==
    /\ session_state.completed_tests["pet"] /\ test_results["pet"] = "Positive"
    /\ session_state.use_ffr
    /\ ~session_state.completed_tests["ccta"] /\ test_results["ccta"] = ""
    /\ session_state.completed_tests["spect"] /\ test_results["spect"] = "Negative"

\* The stage the later stages start from: the override when there is one,
\* else the computed RF-CL.
ActiveRfCl ==
    IF session_state.manual_rf_cl_adjustment # None
    THEN session_state.manual_rf_cl_adjustment.v
    ELSE session_state.current_rf_cl.v

\* The CACS-CL of the active stage and the entered score.
CacsClOfActive == calculate_cacs_cl(ActiveRfCl, cacs_input.v)

\* The post-test probability of one base: the entered results applied to it.
PostTestOf(base) ==
    IF page.test_results = None THEN Returned(base)
    ELSE adjust_likelihood_for_test_results(base, EnteredItems,
                                            ReferenceOf(session_state))

\* C18: in a completed run the override, when present, stands for the RF-CL
\* in every later stage: the CACS-CL is computed from it, the post-test
\* probability from the CACS-CL when a score is entered and else from it, and
\* the probability the recommendation is based on is the stage the selected
\* score names.
C18_OverrideReplaces ==
    RunCompleted =>
        LET base == IF cacs_input # None THEN CacsClOfActive ELSE ActiveRfCl
            selected == page.selected_probability_score.v
        IN  /\ cacs_input # None => PctEq(page.cacs_cl.v, CacsClOfActive)
            /\ SameOutcome(Returned(page.final_probability.v), PostTestOf(base))
            /\ selected \in {"CACS-CL", "**Adjusted** CACS-CL"} =>
                   PctEq(page.recommendation_prob.v, CacsClOfActive)
            /\ selected = "**Adjusted** RF-CL" =>
                   PctEq(page.recommendation_prob.v, ActiveRfCl)
            /\ selected \in PostTestScores =>
                   PctEq(page.recommendation_prob.v, page.final_probability.v)

---------------------------------------------------------------------------
(* The claims about the session of the patient profile (SpecProfile).      *)

\* The inputs calculate_rf_cl is computed from, as the widgets hold them.
ProfileInputs(ss) ==
    <<ss.age, ss.gender, ss.symptom_type, ss.chest_pain_criteria,
      ss.exertional_dyspnea, ss.risk_factors>>

\* C17: every action that changes an input of the patient profile or the
\* risk factors leaves the manual override None, so no override entered for
\* earlier inputs is active after the inputs changed.
C17_InputChangeClearsOverride ==
    [][ProfileInputs(session_state') # ProfileInputs(session_state)
           => session_state'.manual_rf_cl_adjustment = None]_vars

\* An input handler has run (only the handlers raise needs_recalculation),
\* the inputs are not the initial ones, and the override is None.
C17_Witness ==
    /\ session_state.needs_recalculation
    /\ session_state.age = MIN_AGE
    /\ session_state.risk_factors = Val({"Diabetes", "Hypertension"})
    /\ session_state.symptom_type = Val("Dyspnoea")
    /\ session_state.manual_rf_cl_adjustment = None


---------------------------------------------------------------------------
(* Further claims about the session of test entry (Spec).                  *)

\* C25: in every state the session actions reach, every stored result is '',
\* 'Positive' or 'Negative' and the result of a test whose completion flag
\* is true is 'Positive' or 'Negative'; an action that sets a completion
\* flag leaves that test's result 'Negative', and an action that changes the
\* result of a test that stays completed changes it between 'Positive' and
\* 'Negative'.
C25_ResultsWellFormed ==
    /\ [](\A t \in TestNames :
            /\ test_results[t] \in {"", "Positive", "Negative"}
            /\ session_state.completed_tests[t] =>
                  test_results[t] \in {"Positive", "Negative"})
    /\ [][\A t \in TestNames :
            /\ (~session_state.completed_tests[t]
                    /\ session_state'.completed_tests[t]) =>
                  test_results'[t] = "Negative"
            /\ (session_state.completed_tests[t]
                    /\ session_state'.completed_tests[t]
                    /\ test_results'[t] # test_results[t]) =>
                  {test_results[t], test_results'[t]} = {"Positive", "Negative"}]_vars

C25_Witness ==
    /\ session_state.completed_tests["spect"]
    /\ test_results["spect"] = "Positive"
    /\ session_state.completed_tests["ccta"]
    /\ test_results["ccta"] = "Negative"

\* C27: in every state the session actions reach, every test of the result
\* map the run passed to adjust_likelihood_for_test_results has a positive
\* and a negative likelihood ratio for the active reference standard, and no
\* run ended in the KeyError of a missing ratio.
C27_OnlyTestsWithLr ==
    /\ \A i \in DOMAIN EnteredItems :
          /\ EnteredItems[i][1] \in DOMAIN PositiveLrOf(ReferenceOf(session_state))
          /\ EnteredItems[i][1] \in DOMAIN NegativeLrOf(ReferenceOf(session_state))
    /\ page.error # "KeyError"

\* Under FFR, a stress ECG result is stored and the map passed holds SPECT
\* alone.
C27_Witness ==
    /\ session_state.use_ffr
    /\ test_results["stress_ecg"] = "Negative"
    /\ test_results["spect"] = "Positive"
    /\ EnteredItems = <<<<"spect", "Positive">>>>
    /\ RunCompleted

\* C28: in every completed run with at least one valid test result, the
\* post-test probability of the test-results metric is the final_probability
\* main computes, and the metric's base is main's base (the CACS-CL when a
\* calcium score is entered, else the override when present, else the RF-CL).
C28_MetricIsFinal ==
    (RunCompleted /\ page.test_results # None) =>
        /\ page.metric # Missing
        /\ PctEq(page.metric.v, page.final_probability.v)
        /\ PctEq(page.metric_base.v, page.current_prob.v)

\* C24: while the FFR reference standard is selected, the functional tests
\* whose inputs the page renders are exactly the FFR-validated tests spect,
\* pet and stress_cmr.
C24_FfrOffersValidated ==
    session_state.use_ffr =>
        page.rendered_tests \ {"ccta"} = {"spect", "pet", "stress_cmr"}

\* The tests whose completion flag or stored result a step changes.
TestsChanged ==
    {t \in TestNames :
        \/ session_state'.completed_tests[t] # session_state.completed_tests[t]
        \/ test_results'[t] # test_results[t]}

\* C30: a step that checks or unchecks a test or changes a result changes
\* the completion flag and the result of at most one test and leaves the
\* reference-standard flag and the manual override as they were; a step
\* that toggles the reference standard changes no completion flag, no
\* result and not the manual override.  (Each implication is written as
\* 'frame kept, or not such a step'; a toggle of the reference standard is
\* a step that changes use_ffr.)
C30_NarrowFrame ==
    [][/\ \/ /\ Cardinality(TestsChanged) <= 1
             /\ session_state'.use_ffr = session_state.use_ffr
             /\ session_state'.manual_rf_cl_adjustment
                    = session_state.manual_rf_cl_adjustment
          \/ ~(ToggleTest \/ ChangeResult \/ ToggleCctaResult)
       /\ \/ /\ TestsChanged = {}
             /\ session_state'.manual_rf_cl_adjustment
                    = session_state.manual_rf_cl_adjustment
          \/ session_state'.use_ffr = session_state.use_ffr
          \/ ~ToggleFfr]_vars

\* Both kinds of step have been taken with something to keep: two tests
\* completed with different results, under FFR, with an override.
C30_Witness ==
    /\ session_state.use_ffr
    /\ session_state.manual_rf_cl_adjustment # None
    /\ session_state.completed_tests["ccta"] /\ test_results["ccta"] = "Positive"
    /\ session_state.completed_tests["spect"] /\ test_results["spect"] = "Negative"

===========================================================================
